---- MODULE Spec2Model ----
(***************************************************************************)
(* Build orchestration of releng/deps.py: the conditional package graph,   *)
(* selection and ordering (Builder.build), source synchronisation with     *)
(* session-wide invalidation (Builder._prepare), and the per-package,      *)
(* per-runtime build with its manifest as completion marker                *)
(* (Builder._build_package, Builder._build_package_for_runtime).           *)
(***************************************************************************)
EXTENDS Integers, Sequences, FiniteSets, TLC

\* ------------------------------------------------------------ bounds
\* build sessions (process invocations) in one behaviour
MaxSessions == 3
\* edits of pinned versions in the configuration file between sessions
MaxBumps == 1
\* revisions a package source can be at (1..MaxRev)
MaxRev == 2
\* changes of bundle kind between consecutive sessions over one cache
MaxBundleSwitches == 0

\* ------------------------------------------------------------ universe
Ids == {"a", "b", "c"}
\* an identifier no package of the configuration carries
UnknownId == "x"
Bundles == {"TOOLCHAIN", "SDK"}
OSes == {"windows", "linux"}
HostId == "host"
Revs == 1..MaxRev

\* predicate expressions (the `when` strings), by what eval() makes of them
CondNone == "None"
CondSDK == "bundle is Bundle.SDK"
CondWindows == "machine.os == 'windows'"
CondFalse == "False"
CondMalformed == "machine.os = "
Conds == {CondNone, CondSDK, CondWindows, CondFalse, CondMalformed}

\* eval() raises on this expression
Malformed(cond) == cond = CondMalformed

\* Builder._evaluate_condition, for an expression eval() accepts
EvaluateCondition(cond, b, o) ==
    CASE cond = CondNone -> TRUE
      [] cond = CondSDK -> b = "SDK"
      [] cond = CondWindows -> o = "windows"
      [] OTHER -> FALSE

\* Builder._can_build
CanBuild(pkg, b, o) == EvaluateCondition(pkg.when, b, o)

\* a resolution that filters nothing
ResolvePackageUnfiltered(pkg, b, o) == pkg

\* Builder._resolve_package: options and dependencies filtered, order kept
ResolvePackage(pkg, b, o) ==
    LET Keep(x) == EvaluateCondition(x.when, b, o)
    IN [pkg EXCEPT !.options = SelectSeq(pkg.options, Keep),
                   !.dependencies = SelectSeq(pkg.dependencies, Keep)]

Range(s) == {s[k] : k \in DOMAIN s}

\* a predicate check that lets every malformed expression pass as false
ConditionRaisesNever(pk, b, o) == FALSE

\* an exception leaves the comprehension of Builder.build line 326: eval()
\* raised on the package predicate, or on an option or dependency predicate
\* of a package whose own predicate is true
ConditionRaises(pk, b, o) ==
    \E i \in DOMAIN pk :
        \/ Malformed(pk[i].when)
        \/ /\ CanBuild(pk[i], b, o)
           /\ \E x \in Range(pk[i].options) \cup Range(pk[i].dependencies) :
                  Malformed(x.when)

\* all_packages of Builder.build
AllPackages(pk, b, o) ==
    [i \in {j \in DOMAIN pk : CanBuild(pk[j], b, o)} |-> ResolvePackage(pk[i], b, o)]

\* Builder._resolve_package_dependencies over the dependency list `deps`;
\* res.ok = FALSE stands for the KeyError of all_packages[identifier]
RECURSIVE ResolvePackageDependencies(_, _, _)
ResolvePackageDependencies(deps, all, res) ==
    IF ~res.ok \/ deps = <<>> THEN res
    ELSE LET identifier == Head(deps).identifier
         IN IF identifier \in res.ids
            THEN ResolvePackageDependencies(Tail(deps), all, res)
            ELSE IF identifier \notin DOMAIN all
            THEN [ok |-> FALSE, ids |-> res.ids]
            ELSE ResolvePackageDependencies(Tail(deps), all,
                     ResolvePackageDependencies(all[identifier].dependencies, all,
                         [ok |-> TRUE, ids |-> res.ids \cup {identifier}]))

RECURSIVE ResolveDependenciesFrom(_, _, _)
ResolveDependenciesFrom(todo, all, res) ==
    IF todo = {} THEN res
    ELSE LET p == CHOOSE q \in todo : TRUE
         IN ResolveDependenciesFrom(todo \ {p}, all,
                ResolvePackageDependencies(all[p].dependencies, all, res))

\* Builder._resolve_dependencies
ResolveDependencies(toplevel, all) ==
    ResolveDependenciesFrom(toplevel, all, [ok |-> TRUE, ids |-> toplevel])

\* selected_packages of Builder.build before the exclusion filter
SelectedPackages(all, b, only) ==
    IF only.given
    THEN IF only.ids \subseteq DOMAIN all
         THEN ResolveDependencies(only.ids, all)
         ELSE [ok |-> FALSE, ids |-> {}]
    ELSE IF b = "TOOLCHAIN"
    THEN ResolveDependencies({i \in DOMAIN all : all[i].scope = "toolchain"}, all)
    ELSE [ok |-> TRUE, ids |-> {i \in DOMAIN all : all[i].scope = "None"}]

\* a sorter graph that drops the dependency edges
SorterGraphNoEdges(sel, all) == [i \in sel |-> {}]

\* the graph handed to graphlib.TopologicalSorter
SorterGraph(sel, all) ==
    [i \in sel |-> {d.identifier : d \in Range(all[i].dependencies)}]

Nodes(g) == DOMAIN g \cup UNION {g[i] : i \in DOMAIN g}
Predecessors(g, n) == IF n \in DOMAIN g THEN g[n] ELSE {}
Ready(g, done) == {n \in Nodes(g) \ done : Predecessors(g, n) \subseteq done}

RECURSIVE Drain(_, _)
Drain(g, done) ==
    IF Ready(g, done) = {} THEN done ELSE Drain(g, done \cup Ready(g, done))

\* a sorter whose cycle check never fires
FindCycleNever(g) == FALSE

\* TopologicalSorter.prepare raises CycleError
FindCycle(g) == Drain(g, {}) # Nodes(g)

Perms(S) ==
    {s \in [1..Cardinality(S) -> S] : \A i, j \in DOMAIN s : s[i] = s[j] => i = j}

\* a use of static_order that forgets the edges
StaticOrdersUnordered(g, done) == Perms(Nodes(g) \ done)

\* TopologicalSorter.static_order: batches of ready nodes, each batch in the
\* order of the sorter's ready list (it follows dict and set iteration order,
\* so any order within a batch)
RECURSIVE StaticOrders(_, _)
StaticOrders(g, done) ==
    IF Ready(g, done) = {} THEN {<<>>}
    ELSE {p \o rest : p \in Perms(Ready(g, done)),
                      rest \in StaticOrders(g, done \cup Ready(g, done))}

\* Builder.build lines 326-340: the outcome of selection and ordering
Selection(pk, b, o, only, excl) ==
    IF ConditionRaises(pk, b, o)
    THEN [status |-> "SyntaxError", selected |-> {}, orders |-> {<<>>}]
    ELSE LET all == AllPackages(pk, b, o)
             res == SelectedPackages(all, b, only)
             sel == res.ids \ excl
             g == SorterGraph(sel, all)
         IN IF ~res.ok
            THEN [status |-> "KeyError", selected |-> {}, orders |-> {<<>>}]
            ELSE IF FindCycle(g)
            THEN [status |-> "CycleError", selected |-> sel, orders |-> {<<>>}]
            ELSE IF ~(Nodes(g) \subseteq sel)
            THEN [status |-> "KeyError", selected |-> sel, orders |-> {<<>>}]
            ELSE [status |-> "ok", selected |-> sel, orders |-> StaticOrders(g, {})]

\* ------------------------------------------------------------ state
VARIABLES
    packages,     \* the configuration: identifier -> PackageSpec
    pinned,       \* PackageSpec.version of each identifier
    os,           \* machine.os of the host
    head,         \* git HEAD of each source directory, 0: no working copy
    manifest,     \* the manifest files: path -> [rev, exit], the source
                  \* revision built and the exit status of the introspection
    builddir,     \* the build-scratch directories that exist
    installed,    \* <<prefix, package>>: the package has files under the prefix
    pc,           \* where the process is
    bundle, only, excluded,     \* the session's arguments
    status,       \* the outcome of selection
    selected,     \* selected_packages
    order,        \* packages, the build order
    idx, rt,      \* loop positions: package in order, runtime in _runtimes
    wipeReturn,   \* where _wipe_build_state returns to
    modifiedBy,   \* who reported MODIFIED in this session: packages, "toolchain"
    cloned,       \* packages whose working copy this session cloned
    effects,      \* kinds of side effect this session has had
    started,      \* (package, runtime) pairs the build tool was started for
    skipped,      \* (package, runtime) pairs skipped on their manifest
    toolFailed,   \* a build-tool invocation of this session exited non-zero
    afterKill,    \* the session before this one was terminated externally
    machineEnv,   \* the machine files and environment of the process: 0 before
                  \* _prepare has made them, else the number of the session
    usedEnvs,     \* the environments the build tool was invoked with for packages
    nsessions, nbumps, nswitches

\* the staged tree of _package and its deployment by sync
VARIABLES
    buildOs,        \* the OS of the build machine: it decides how str(path) reads
    bundledir,      \* the staged tree: path -> file
    builtTree,      \* the tree as it was copied from the prefix
    pkgManifest,    \* a package manifest of the staged tree: [exists, lines]
    builtManifest,  \* its lines as _build_package_for_runtime wrote them
    stagePc,        \* "copied", "manifests", "paths", "deployed"
    deployLocation  \* the location argument of the sync that deploys the tree

\* the sync and wait commands and the remote they talk to
VARIABLES
    remote,       \* what the bundle URL answers
    wanted,       \* deps_version of the configuration
    location,     \* the deployed copy: [kind, version]
    previous,     \* the copy found at location when the sync began
    stagingDir,   \* the sibling directory _<name>
    localBundle,  \* an archive lies next to location
    tempArchive,  \* a downloaded temporary archive exists
    syncPc,       \* where sync is
    syncState,    \* the SourceState sync returns
    waitPc,       \* where wait is
    lastProbe,    \* what the last probe of wait met
    nprobes       \* probes this wait has made

\* the roll command
VARIABLES
    rollPc,        \* where roll is
    rollBundle, rollActivate, rollPost,   \* its arguments; post: "none", or the
                   \* script is "present" or "missing"
    rollBase,      \* the number of build sessions begun before the roll
    rollProbe,     \* what the HEAD request of the roll met
    rollListing,   \* the exit status of aws s3 ls, -1: not run
    rollDid,       \* what the roll has done: "config", "build", "post", "upload", "purge"
    bootstrap      \* bootstrap_version of the configuration file: "stale", or
                   \* "current" when it equals deps_version

staging == <<buildOs, bundledir, builtTree, pkgManifest, builtManifest, stagePc,
             deployLocation>>
rolling == <<rollPc, rollBundle, rollActivate, rollPost, rollBase, rollProbe,
             rollListing, rollDid, bootstrap>>
syncAndWait == <<remote, wanted, location, previous, stagingDir, localBundle,
                 tempArchive, syncPc, syncState, waitPc, lastProbe, nprobes>>
deployment == <<syncAndWait, rolling>>

vars == <<packages, pinned, os, head, manifest, builddir, installed, pc, bundle,
          only, excluded, status, selected, order, idx, rt, wipeReturn, modifiedBy,
          cloned, effects, started, skipped, toolFailed, afterKill, machineEnv,
          usedEnvs, nsessions, nbumps, nswitches, staging, deployment>>

\* what no step of a build session changes: the loaded configuration, the
\* host, and the state of the staging and deployment commands
config == <<packages, os, staging, deployment>>
\* the state of the build command and its cache
buildState == <<packages, pinned, os, head, manifest, builddir, installed, pc, bundle,
                only, excluded, status, selected, order, idx, rt, wipeReturn,
                modifiedBy, cloned, effects, started, skipped, toolFailed, afterKill,
                machineEnv, usedEnvs, nsessions, nbumps, nswitches>>
filesystem == <<head, manifest, builddir, installed>>
session == <<bundle, only, excluded, status, selected, order>>
counters == <<nsessions, nbumps, nswitches>>
environment == <<machineEnv, usedEnvs>>

\* a builder that never adds the dynamic runtime
RuntimesStaticOnly(b, o) == <<"static">>

\* Builder.__init__ lines 301-304
Runtimes(b, o) ==
    IF o = "windows" /\ b = "SDK" THEN <<"static", "dynamic">> ELSE <<"static">>

\* Builder._compute_output_id: the parts joined by "-"
ComputeOutputId(o, runtime) ==
    IF o = "windows" THEN <<HostId, runtime>> ELSE <<HostId>>

OutputIds == {<<HostId>>, <<HostId, "static">>, <<HostId, "dynamic">>}

\* Builder._get_prefix: <outdir of the bundle>/<output id>
GetPrefix(b, o, runtime) == <<b, ComputeOutputId(o, runtime)>>

\* Builder._get_manifest_path: <prefix>/manifest/<identifier>.pkg
GetManifestPath(b, o, runtime, i) == <<b, ComputeOutputId(o, runtime), i>>

\* a build directory that leaves the package out
GetBuilddirNoPackage(b, o, runtime, i) == <<b, ComputeOutputId(o, runtime), "a">>

\* Builder._get_builddir: <builddir container of the bundle>/<output id>/<identifier>
GetBuilddir(b, o, runtime, i) == <<b, ComputeOutputId(o, runtime), i>>

\* Builder._get_sourcedir: <workdir>/<identifier>
GetSourcedir(i) == <<"src", i>>

PackageDirs == Bundles \X OutputIds \X Ids
ManifestExists(path) == path \in DOMAIN manifest

Stopped == {"idle", "done", "failed", "killed"}
Running == {"prepare", "wipe", "machine", "build", "setup", "install",
            "introspect", "package"}

\* the process exit status (build lines 286-292, main lines 134-138; an
\* uncaught exception ends the interpreter with status 1)
ExitStatus == IF pc = "done" THEN 0 ELSE 1

\* ------------------------------------------------------------ configurations
Dep(i, w) == [identifier |-> i, when |-> w]
Opt(v, w) == [value |-> v, when |-> w]
Pkg(deps, opts, scope, w) ==
    [dependencies |-> deps, options |-> opts, scope |-> scope, when |-> w]

\* the variants of package a: plain, with the toolchain scope, with an option
\* whose predicate is malformed, and the same gated off by its own predicate
VariantsOfA ==
    {[options |-> <<>>, scope |-> "None", when |-> CondNone],
     [options |-> <<>>, scope |-> "toolchain", when |-> CondNone],
     [options |-> <<Opt("-Dx=1", CondMalformed)>>, scope |-> "None", when |-> CondNone],
     [options |-> <<Opt("-Dx=1", CondMalformed)>>, scope |-> "None", when |-> CondFalse]}

\* the package graphs of the build sessions: packages a and b, where b depends
\* on a (always, or on windows only) or on an unknown identifier, and a may
\* depend on b
SessionGraphs ==
    {[i \in {"a", "b"} |->
        IF i = "a" THEN Pkg(da, va.options, va.scope, va.when)
                   ELSE Pkg(db, <<>>, "None", CondNone)] :
        da \in {<<>>, <<Dep("b", CondNone)>>},
        va \in VariantsOfA,
        db \in {<<Dep("a", CondNone)>>, <<Dep("a", CondWindows)>>,
                <<Dep(UnknownId, CondNone)>>}}

NoOnly == [given |-> FALSE, ids |-> {}]
Only(S) == [given |-> TRUE, ids |-> S]

\* the --only and --exclude arguments tried
OnlyChoices == {NoOnly, Only({"a"})}
ExcludeChoices == {{}, {"a"}}

TypeOK ==
    /\ pc \in Stopped \cup Running
    /\ head \in [Ids -> 0..MaxRev]
    /\ pinned \in [Ids -> Revs]
    /\ bundle \in Bundles
    /\ idx \in 1..(Cardinality(Ids) + 1)
    /\ DOMAIN manifest \subseteq PackageDirs
    /\ builddir \subseteq PackageDirs
    /\ \A path \in DOMAIN manifest : manifest[path].rev \in Revs
    /\ rt \in 1..2

EmptyCache ==
    /\ pinned = [i \in Ids |-> 1]
    /\ head = [i \in Ids |-> 0]
    /\ manifest = [path \in {} |-> [rev |-> 1, exit |-> 0]]
    /\ builddir = {}
    /\ installed = {}
    /\ pc = "idle"
    /\ only = NoOnly
    /\ excluded = {}
    /\ status = "ok"
    /\ selected = {}
    /\ order = <<>>
    /\ idx = 1
    /\ rt = 1
    /\ wipeReturn = "prepare"
    /\ modifiedBy = {}
    /\ cloned = {}
    /\ effects = {}
    /\ started = {}
    /\ skipped = {}
    /\ toolFailed = FALSE
    /\ afterKill = FALSE
    /\ machineEnv = 0
    /\ usedEnvs = {}
    /\ nsessions = 0
    /\ nbumps = 0
    /\ nswitches = 0

\* an empty cache directory; the bundle of the last session is the SDK
InitCache == bundle = "SDK" /\ EmptyCache

\* nothing is staged
NoStaging ==
    /\ buildOs = "linux"
    /\ bundledir = <<>>
    /\ builtTree = <<>>
    /\ pkgManifest = [exists |-> FALSE, lines |-> <<>>]
    /\ builtManifest = <<>>
    /\ stagePc = "idle"
    /\ deployLocation = <<>>

\* no roll runs
NoRoll ==
    /\ rollPc = "idle"
    /\ rollBundle = "SDK"
    /\ rollActivate = FALSE
    /\ rollPost = "none"
    /\ rollBase = 0
    /\ rollProbe = "none"
    /\ rollListing = -1
    /\ rollDid = {}

\* nothing is deployed and no sync or wait runs
NoSyncOrWait ==
    /\ remote = "missing"
    /\ wanted = 1
    /\ location = [kind |-> "absent", version |-> 0]
    /\ previous = [kind |-> "absent", version |-> 0]
    /\ stagingDir = "absent"
    /\ localBundle = FALSE
    /\ tempArchive = FALSE
    /\ syncPc = "idle"
    /\ syncState = "PRISTINE"
    /\ waitPc = "idle"
    /\ lastProbe = "none"
    /\ nprobes = 0

\* nothing is deployed, no sync, wait or roll runs
NoDeployment == NoSyncOrWait /\ NoRoll /\ bootstrap = "stale"

\* an empty cache directory and a loaded configuration
Init ==
    /\ packages \in SessionGraphs
    /\ os \in OSes
    /\ InitCache
    /\ NoStaging
    /\ NoDeployment

\* ------------------------------------------------------------ the build command
CurrentPackage == order[idx]
CurrentRuntime == Runtimes(bundle, os)[rt]
CurrentPair == <<CurrentPackage, CurrentRuntime>>
CurrentPath == GetManifestPath(bundle, os, CurrentRuntime, CurrentPackage)
CurrentBuilddir == GetBuilddir(bundle, os, CurrentRuntime, CurrentPackage)

\* build() and Builder.build up to the call of _prepare: a new process, the
\* selection and the build order, or the exception that ends it
StartBuildWithin(b, o, e, switches) ==
    /\ pc \in Stopped
    /\ nsessions < MaxSessions
    /\ nsessions > 0 /\ b # bundle => nswitches < switches
    /\ LET s == Selection(packages, b, os, o, e)
       IN /\ \E ord \in s.orders : order' = ord
          /\ status' = s.status
          /\ selected' = s.selected
          /\ pc' = IF s.status = "ok" THEN "prepare" ELSE "failed"
    /\ bundle' = b
    /\ only' = o
    /\ excluded' = e
    /\ idx' = 1
    /\ rt' = 1
    /\ wipeReturn' = "prepare"
    /\ modifiedBy' = {}
    /\ cloned' = {}
    /\ effects' = {}
    /\ started' = {}
    /\ skipped' = {}
    /\ toolFailed' = FALSE
    /\ afterKill' = (pc = "killed")
    /\ machineEnv' = 0
    /\ usedEnvs' = {}
    /\ nsessions' = nsessions + 1
    /\ nswitches' = IF nsessions > 0 /\ b # bundle THEN nswitches + 1 ELSE nswitches
    /\ UNCHANGED <<config, pinned, filesystem, nbumps>>

StartBuild(b, o, e) == StartBuildWithin(b, o, e, MaxBundleSwitches)

\* a checkout that lands on another revision than the pinned one
GitCheckoutElsewhere(p) == [head EXCEPT ![p] = IF pinned[p] = 1 THEN 2 ELSE 1]

\* git checkout -q pkg.version of _grab_and_prepare (lines 448 and 459), exit 0
GitCheckout(p) == [head EXCEPT ![p] = pinned[p]]

\* Builder._grab_and_prepare for the next package of the loop of _prepare
GrabAndPrepare ==
    /\ pc = "prepare"
    /\ idx <= Len(order)
    /\ LET p == CurrentPackage IN
       \/ \* the working copy is at the pinned version: PRISTINE
          /\ head[p] # 0 /\ head[p] = pinned[p]
          /\ idx' = idx + 1
          /\ UNCHANGED <<head, pc, modifiedBy, cloned, effects, wipeReturn>>
       \/ \* fetch and checkout: MODIFIED, and _prepare wipes
          /\ head[p] # 0 /\ head[p] # pinned[p]
          /\ head' = GitCheckout(p)
          /\ modifiedBy' = modifiedBy \cup {p}
          /\ effects' = effects \cup {"sync"}
          /\ pc' = "wipe"
          /\ wipeReturn' = "prepare"
          /\ UNCHANGED <<idx, cloned>>
       \/ \* git fetch or git checkout exits non-zero
          /\ head[p] # 0 /\ head[p] # pinned[p]
          /\ effects' = effects \cup {"sync"}
          /\ pc' = "failed"
          /\ UNCHANGED <<head, idx, modifiedBy, cloned, wipeReturn>>
       \/ \* clone and checkout: PRISTINE
          /\ head[p] = 0
          /\ head' = GitCheckout(p)
          /\ cloned' = cloned \cup {p}
          /\ effects' = effects \cup {"sync"}
          /\ idx' = idx + 1
          /\ UNCHANGED <<pc, modifiedBy, wipeReturn>>
       \/ \* git clone exits non-zero
          /\ head[p] = 0
          /\ effects' = effects \cup {"sync"}
          /\ pc' = "failed"
          /\ UNCHANGED <<head, idx, modifiedBy, cloned, wipeReturn>>
       \/ \* the clone is made and the checkout of the pinned version fails:
          \* the working copy stays at the remote's default revision
          /\ head[p] = 0
          /\ \E r \in Revs \ {pinned[p]} : head' = [head EXCEPT ![p] = r]
          /\ effects' = effects \cup {"sync"}
          /\ pc' = "failed"
          /\ UNCHANGED <<idx, modifiedBy, cloned, wipeReturn>>
    /\ UNCHANGED <<config, pinned, manifest, builddir, installed, session, rt,
                   started, skipped, toolFailed, afterKill, environment, counters>>

\* ensure_toolchain, called by _prepare once every package is synchronised:
\* the bootstrap toolchain is current, is replaced (MODIFIED), or its
\* download fails
EnsureToolchain ==
    /\ pc = "prepare"
    /\ idx > Len(order)
    /\ \/ /\ pc' = "machine"
          /\ UNCHANGED <<modifiedBy, effects, wipeReturn>>
       \/ /\ modifiedBy' = modifiedBy \cup {"toolchain"}
          /\ effects' = effects \cup {"toolchain"}
          /\ pc' = "wipe"
          /\ wipeReturn' = "machine"
       \/ /\ effects' = effects \cup {"toolchain"}
          /\ pc' = "failed"
          /\ UNCHANGED <<modifiedBy, wipeReturn>>
    /\ UNCHANGED <<config, pinned, filesystem, session, idx, rt, cloned, started, skipped,
                   toolFailed, afterKill, environment, counters>>

\* a wipe that forgets the output directory
WipedManifestKept(b) == manifest

\* the manifests left by shutil.rmtree of _get_outdir() in _wipe_build_state
WipedManifest(b) ==
    [path \in {q \in DOMAIN manifest : q[1] # b} |-> manifest[path]]

\* Builder._wipe_build_state: the output directory and the build-scratch
\* container of the bundle are removed
WipeBuildState ==
    /\ pc = "wipe"
    /\ manifest' = WipedManifest(bundle)
    /\ installed' = {e \in installed : e[1][1] # bundle}
    /\ builddir' = {d \in builddir : d[1] # bundle}
    /\ effects' = effects \cup {"wipe"}
    /\ pc' = wipeReturn
    /\ idx' = IF wipeReturn = "prepare" THEN idx + 1 ELSE idx
    /\ UNCHANGED <<config, pinned, head, session, rt, wipeReturn, modifiedBy, cloned, started,
                   skipped, toolFailed, afterKill, environment, counters>>

\* env.generate_machine_files and the environment of _prepare lines 425-436
GenerateMachineFiles ==
    /\ pc = "machine"
    /\ effects' = effects \cup {"env"}
    /\ machineEnv' = nsessions
    /\ pc' = "build"
    /\ idx' = 1
    /\ rt' = 1
    /\ UNCHANGED <<config, pinned, filesystem, session, wipeReturn, modifiedBy, cloned, started,
                   skipped, toolFailed, afterKill, usedEnvs, counters>>

\* a loop that leaves a package after its first runtime
NextPairSkipsRuntimes ==
    /\ pc' = "build"
    /\ rt' = 1
    /\ idx' = idx + 1

\* the next (package, runtime) of the loops of Builder.build and _build_package
NextPair ==
    /\ pc' = "build"
    /\ IF rt < Len(Runtimes(bundle, os))
       THEN rt' = rt + 1 /\ idx' = idx
       ELSE rt' = 1 /\ idx' = idx + 1

\* a build step that never looks at the manifest
ManifestPresentNever(path) == FALSE

\* a build step that takes every manifest for present
ManifestPresentAlways(path) == TRUE

\* manifest_path.exists() of _build_package line 474
ManifestPresent(path) == ManifestExists(path)

\* a build that keeps the build directory of an earlier attempt
ClearedBuilddirsKept == builddir

\* _build_package_for_runtime lines 496-497: builddir.exists() and rmtree
ClearedBuilddirs == builddir \ {CurrentBuilddir}

\* Builder._build_package for the current pair: skip on an existing manifest,
\* else enter _build_package_for_runtime and clear the build directory; after
\* the last package, go on to _package
BuildPackage ==
    /\ pc = "build"
    /\ \/ /\ idx > Len(order)
          /\ pc' = "package"
          /\ UNCHANGED <<idx, rt, builddir, skipped, effects>>
       \/ /\ idx <= Len(order)
          /\ ManifestPresent(CurrentPath)
          /\ skipped' = skipped \cup {CurrentPair}
          /\ NextPair
          /\ UNCHANGED <<builddir, effects>>
       \/ /\ idx <= Len(order)
          /\ ~ManifestPresent(CurrentPath)
          /\ builddir' = ClearedBuilddirs
          /\ effects' = effects \cup {"scratch"}
          /\ pc' = "setup"
          /\ UNCHANGED <<idx, rt, skipped>>
    /\ UNCHANGED <<config, pinned, head, manifest, installed, session, wipeReturn,
                   modifiedBy, cloned, started, toolFailed, afterKill, environment, counters>>

\* a tool run that is handed the environment of the session before
InvocationEnvInherited == machineEnv - 1

\* the machine files and env=self._machine_env handed to _call_meson
InvocationEnv == machineEnv

\* meson setup (check=True): exit 0, or CalledProcessError
MesonSetup ==
    /\ pc = "setup"
    /\ usedEnvs' = usedEnvs \cup {InvocationEnv}
    /\ started' = started \cup {CurrentPair}
    /\ effects' = effects \cup {"tool"}
    /\ builddir' = builddir \cup {CurrentBuilddir}
    /\ \/ pc' = "install" /\ UNCHANGED toolFailed
       \/ pc' = "failed" /\ toolFailed' = TRUE
    /\ UNCHANGED <<config, pinned, head, manifest, installed, session, idx, rt,
                   wipeReturn, modifiedBy, cloned, skipped, afterKill, machineEnv, counters>>

\* meson install (check=True): exit 0, or CalledProcessError with the files
\* installed so far left under the prefix
MesonInstall ==
    /\ pc = "install"
    /\ usedEnvs' = usedEnvs \cup {InvocationEnv}
    /\ effects' = effects \cup {"tool"}
    /\ installed' = installed \cup
                        {<<GetPrefix(bundle, os, CurrentRuntime), CurrentPackage>>}
    /\ \/ pc' = "introspect" /\ UNCHANGED toolFailed
       \/ pc' = "failed" /\ toolFailed' = TRUE
    /\ UNCHANGED <<config, pinned, head, manifest, builddir, session, idx, rt,
                   wipeReturn, modifiedBy, cloned, started, skipped, afterKill,
                   machineEnv, counters>>

\* manifest_path.write_text of _build_package_for_runtime line 542
WrittenManifest(exit) ==
    (CurrentPath :> [rev |-> head[CurrentPackage], exit |-> exit]) @@ manifest

\* meson introspect --installed (no check=True) and the manifest write of
\* _build_package_for_runtime lines 531-542: the exit status is not looked
\* at, json.loads decides; stdout of a failed run may or may not parse
MesonIntrospect ==
    /\ pc = "introspect"
    /\ usedEnvs' = usedEnvs \cup {InvocationEnv}
    /\ effects' = effects \cup {"tool"}
    /\ \/ \* exit 0, the installed files as JSON
          /\ manifest' = WrittenManifest(0)
          /\ NextPair
          /\ UNCHANGED toolFailed
       \/ \* non-zero exit, stdout does not parse: json.JSONDecodeError
          /\ pc' = "failed"
          /\ toolFailed' = TRUE
          /\ UNCHANGED <<manifest, idx, rt>>
       \/ \* non-zero exit, stdout parses as a JSON object
          /\ manifest' = WrittenManifest(1)
          /\ NextPair
          /\ toolFailed' = TRUE
    /\ UNCHANGED <<config, pinned, head, builddir, installed, session, wipeReturn,
                   modifiedBy, cloned, started, skipped, afterKill, machineEnv, counters>>

\* Builder._package: staging, manifest and path adjustment, the archive
Package ==
    /\ pc = "package"
    /\ effects' = effects \cup {"stage", "archive"}
    /\ pc' = "done"
    /\ UNCHANGED <<config, pinned, filesystem, session, idx, rt, wipeReturn,
                   modifiedBy, cloned, started, skipped, toolFailed, afterKill,
                   environment, counters>>

\* the state of a process that is gone
NoProcess ==
    /\ status' = "ok"
    /\ selected' = {}
    /\ order' = <<>>
    /\ idx' = 1
    /\ rt' = 1
    /\ wipeReturn' = "prepare"
    /\ modifiedBy' = {}
    /\ cloned' = {}
    /\ effects' = {}
    /\ started' = {}
    /\ skipped' = {}
    /\ toolFailed' = FALSE
    /\ only' = NoOnly
    /\ excluded' = {}
    /\ machineEnv' = 0
    /\ usedEnvs' = {}
    /\ UNCHANGED <<bundle, afterKill>>

\* the process is terminated externally between two steps; what it wrote stays
Kill ==
    /\ pc \in Running
    /\ pc' = "killed"
    /\ NoProcess
    /\ UNCHANGED <<config, pinned, filesystem, counters>>

\* bump(), run between two sessions: the pinned version of every outdated
\* package is rewritten
Bump(latest) ==
    /\ pc \in Stopped
    /\ nbumps < MaxBumps
    /\ latest # pinned
    /\ \A i \in Ids \ DOMAIN packages : latest[i] = pinned[i]
    /\ pinned' = latest
    /\ nbumps' = nbumps + 1
    /\ pc' = IF pc = "killed" THEN "killed" ELSE "idle"
    /\ NoProcess
    /\ UNCHANGED <<config, filesystem, nsessions, nswitches>>

Next ==
    \/ \E b \in Bundles, o \in OnlyChoices, e \in ExcludeChoices : StartBuild(b, o, e)
    \/ GrabAndPrepare
    \/ EnsureToolchain
    \/ WipeBuildState
    \/ GenerateMachineFiles
    \/ BuildPackage
    \/ MesonSetup
    \/ MesonInstall
    \/ MesonIntrospect
    \/ Package
    \/ Kill
    \/ \E latest \in [Ids -> Revs] : Bump(latest)

Spec == Init /\ [][Next]_vars

\* ------------------------------------------------------------ bundles in turn
\* changes of the bundle kind between the sessions of one cache directory
MaxSharedSwitches == 2

\* a configuration whose package a is built for both bundles: a is unscoped,
\* and the toolchain package b depends on it
InitShared ==
    /\ packages = [i \in {"a", "b"} |->
                     IF i = "a" THEN Pkg(<<>>, <<>>, "None", CondNone)
                                ELSE Pkg(<<Dep("a", CondNone)>>, <<>>, "toolchain", CondNone)]
    /\ os = "linux"
    /\ InitCache
    /\ NoStaging
    /\ NoDeployment

\* build commands for either bundle on one cache directory, and bumps
NextShared ==
    \/ \E b \in Bundles : StartBuildWithin(b, NoOnly, {}, MaxSharedSwitches)
    \/ GrabAndPrepare
    \/ EnsureToolchain
    \/ WipeBuildState
    \/ GenerateMachineFiles
    \/ BuildPackage
    \/ MesonSetup
    \/ MesonInstall
    \/ MesonIntrospect
    \/ Package
    \/ \E latest \in [Ids -> Revs] : Bump(latest)

SpecShared == InitShared /\ [][NextShared]_vars

\* ------------------------------------------------------------ selection alone
\* dependency lists of package i over the other identifiers j and k
DepLists(i, j, k) ==
    {<<>>, <<Dep(j, CondNone)>>, <<Dep(k, CondNone)>>,
     <<Dep(j, CondNone), Dep(k, CondNone)>>, <<Dep(j, CondSDK)>>,
     <<Dep(i, CondNone)>>, <<Dep(UnknownId, CondNone)>>}

Scopes == {"None", "toolchain"}

\* option lists of package a: none, or three options gated differently
OptLists ==
    {<<>>, <<Opt("-Dx=1", CondSDK), Opt("-Dy=2", CondNone), Opt("-Dz=3", CondFalse)>>}

\* package graphs over a, b and c for the selection: every combination of the
\* dependency lists and scopes, c gated on the bundle kind or not
SelectionGraphs ==
    {[i \in Ids |->
        CASE i = "a" -> Pkg(da, oa, sa, CondNone)
          [] i = "b" -> Pkg(db, <<>>, sb, CondNone)
          [] OTHER -> Pkg(dc, <<>>, sc, wc)] :
        da \in DepLists("a", "b", "c"), db \in DepLists("b", "c", "a"),
        dc \in DepLists("c", "a", "b"), oa \in OptLists,
        sa \in Scopes, sb \in Scopes, sc \in Scopes, wc \in {CondNone, CondSDK}}

OnlyChoicesSel == {NoOnly, Only({"a"}), Only({"b"}), Only({"a", "c"})}
ExcludeChoicesSel == {{}, {"a"}, {"c"}, {"b", "c"}}

InitSel ==
    /\ packages \in SelectionGraphs
    /\ os = "linux"
    /\ InitCache
    /\ NoStaging
    /\ NoDeployment

\* one build command on each graph, up to the end of selection and ordering
NextSel ==
    \E b \in Bundles, o \in OnlyChoicesSel, e \in ExcludeChoicesSel :
        nsessions = 0 /\ StartBuild(b, o, e)

SpecSel == InitSel /\ [][NextSel]_vars

\* ------------------------------------------------------------ staging
\* a relative file name "dir/file.ext"; the empty name has all parts empty
Entry(dir, file, ext) == [dir |-> dir, file |-> file, ext |-> ext]
EmptyEntry == Entry("", "", "")
StaticLib == Entry("lib", "x", ".a")
SharedLib == Entry("lib", "y", ".so")
ToolBinary == Entry("bin", "t", "")
PcFile == Entry("lib/pkgconfig", "x", ".pc")
Script == Entry("bin", "x-config", "")
Header == Entry("include", "conf", ".h")

\* a path of the staged tree: the entry followed by n ".frida.in" suffixes;
\* here the path of the entry itself
PathOf(entry) == <<entry, 0>>

\* PurePath.suffix
Suffix(path) == IF path[2] > 0 THEN ".in" ELSE path[1].ext

\* the text of a file is a sequence of tokens: literal strings and path
\* strings, the latter in Windows or POSIX form
Lit(str) == <<"lit", <<str>>>>
ToolRoot == Lit("@FRIDA_TOOLROOT@")
SdkPrefixVar == Lit("${frida_sdk_prefix}")
Flat(path) == <<path[1]>> \o path[2]

\* str(path): backslashes on a Windows build machine, slashes elsewhere
Str(path, bo) ==
    IF bo = "windows" THEN <<"windows", Flat(path)>> ELSE <<"posix", Flat(path)>>

\* Path.as_posix()
AsPosix(path) == <<"posix", Flat(path)>>

\* str.replace on the tokens of a text
Replace(text, old, new) ==
    [k \in DOMAIN text |-> IF text[k] = old THEN new ELSE text[k]]

RECURSIVE ReplaceAll(_, _, _)
ReplaceAll(text, olds, new) ==
    IF olds = <<>> THEN text
    ELSE ReplaceAll(Replace(text, Head(olds), new), Tail(olds), new)

TextFile(text) == [kind |-> "text", text |-> text]
BinaryFile == [kind |-> "binary", text |-> <<>>]
\* a symbolic link to a file with this text
Symlink(text) == [kind |-> "symlink", text |-> text]
Link == Entry("bin", "link", "")

\* self._toolchain_prefix, the directory ensure_toolchain deployed to
ToolchainPrefix == <<"toolchain", <<>>>>

\* prefixes of _adjust_files_containing_hardcoded_paths line 636
PrefixStrings(b, o, bo) ==
    [k \in DOMAIN Runtimes(b, o) |-> Str(GetPrefix(b, o, Runtimes(b, o)[k]), bo)]

\* a rewrite that forgets to mark the files it changed as templates
AdjustedFileNeverRenamed(path, f, prefixes) ==
    IF f.kind # "text" THEN <<path, f>>
    ELSE <<path, TextFile(ReplaceAll(f.text, prefixes, ToolRoot))>>

\* a rewrite that marks package-config files as templates too
AdjustedFileRenamesPcFiles(path, f, prefixes) ==
    IF f.kind # "text" THEN <<path, f>>
    ELSE LET is_pcfile == Suffix(path) = ".pc"
             replacement == IF is_pcfile THEN SdkPrefixVar ELSE ToolRoot
             new_text == ReplaceAll(f.text, prefixes, replacement)
         IN IF new_text = f.text THEN <<path, f>>
            ELSE <<<<path[1], path[2] + 1>>, TextFile(new_text)>>

\* the body of the loop of _adjust_files_containing_hardcoded_paths for one
\* file: its path and content afterwards
AdjustedFile(path, f, prefixes) ==
    IF f.kind = "symlink" THEN <<path, f>>
    ELSE IF f.kind # "text" THEN <<path, f>>
    ELSE LET is_pcfile == Suffix(path) = ".pc"
             replacement == IF is_pcfile THEN SdkPrefixVar ELSE ToolRoot
             new_text == ReplaceAll(f.text, prefixes, replacement)
         IN IF new_text = f.text THEN <<path, f>>
            ELSE <<IF is_pcfile THEN path ELSE <<path[1], path[2] + 1>>,
                   TextFile(new_text)>>

\* the tree made of a set of <<path, file>> pairs
TreeOf(pairs) ==
    [q \in {x[1] : x \in pairs} |-> (CHOOSE x \in pairs : x[1] = q)[2]]

\* Builder._adjust_files_containing_hardcoded_paths over the tree
AdjustedTree(tree, b, o, bo) ==
    TreeOf({AdjustedFile(q, tree[q], PrefixStrings(b, o, bo)) : q \in DOMAIN tree})

\* the loop of sync lines 210-216 for one file
DeployedFile(path, f, loc) ==
    IF path[2] > 0
    THEN <<<<path[1], path[2] - 1>>, TextFile(Replace(f.text, ToolRoot, AsPosix(loc)))>>
    ELSE <<path, f>>

DeployedTree(tree, loc) ==
    TreeOf({DeployedFile(q, tree[q], loc) : q \in DOMAIN tree})

\* prefix.joinpath(entry).exists(): the empty entry names the tree itself
EntryExists(tree, entry) == entry = EmptyEntry \/ PathOf(entry) \in DOMAIN tree

\* entry.startswith("lib/") and entry.endswith(".a")
IsStaticArchive(entry) == entry.dir = "lib" /\ entry.ext = ".a"

\* "lib-dynamic/" + entry[4:]
DynamicEntry(entry) == [entry EXCEPT !.dir = "lib-dynamic"]

\* the position of an entry's string in the order of str
Rank(entry) ==
    CASE entry = EmptyEntry -> 0
      [] entry.dir = "bin" /\ entry.file = "t" -> 1
      [] entry.dir = "bin" -> 2
      [] entry.dir = "include" -> 3
      [] entry.dir = "lib-dynamic" -> 4
      [] entry.dir = "lib/pkgconfig" -> 5
      [] entry.dir = "lib" /\ entry.file = "x" -> 6
      [] OTHER -> 7

RECURSIVE Insert(_, _)
Insert(e, sorted) ==
    IF sorted = <<>> THEN <<e>>
    ELSE IF Rank(e) <= Rank(Head(sorted)) THEN <<e>> \o sorted
    ELSE <<Head(sorted)>> \o Insert(e, Tail(sorted))

\* list.sort()
RECURSIVE Sorted(_)
Sorted(lines) == IF lines = <<>> THEN <<>> ELSE Insert(Head(lines), Sorted(Tail(lines)))

\* read_text().strip().split("\n") of the text "\n".join(lines) + "\n"
ReadEntries(lines) == IF lines = <<>> THEN <<EmptyEntry>> ELSE lines

\* the lines _adjust_manifests collects for the entries
RECURSIVE KeptLines(_, _)
KeptLines(entries, tree) ==
    IF entries = <<>> THEN <<>>
    ELSE LET entry == Head(entries)
         IN (IF EntryExists(tree, entry) THEN <<entry>> ELSE <<>>)
            \o (IF IsStaticArchive(entry) /\ EntryExists(tree, DynamicEntry(entry))
                THEN <<DynamicEntry(entry)>> ELSE <<>>)
            \o KeptLines(Tail(entries), tree)

\* a pruning that keeps every original line
AdjustedManifestUnpruned(lines, tree) == [exists |-> TRUE, lines |-> lines]

\* Builder._adjust_manifests for one manifest
AdjustedManifest(lines, tree) ==
    LET kept == KeptLines(ReadEntries(lines), tree)
    IN IF kept # <<>> THEN [exists |-> TRUE, lines |-> Sorted(kept)]
       ELSE [exists |-> FALSE, lines |-> <<>>]

\* _stage_toolchain_files lines 599-606: files of the deployed toolchain are
\* mixed in
MixesInToolchain(b, o) == b = "TOOLCHAIN" /\ o = "windows"

\* text tokens tried: plain text, the placeholder, the session's prefixes as
\* str() gives them, the static prefix in POSIX form, and in a mixed-in file
\* the location sync wrote into the templates of the toolchain
Tokens(b, o, bo) ==
    {Lit("text"), ToolRoot, AsPosix(GetPrefix(b, o, "static"))}
        \cup Range(PrefixStrings(b, o, bo))
        \cup (IF MixesInToolchain(b, o) THEN {AsPosix(ToolchainPrefix)} ELSE {})

MaxTextLen == 2
Texts(b, o, bo) == UNION {[1..n -> Tokens(b, o, bo)] : n \in 0..MaxTextLen}

\* the staged trees tried: one text file (a package-config file, a script, or
\* a header that is a template already) next to any of the binaries, and
\* maybe a symbolic link to a file that names the static prefix
StagedTrees(b, o, bo) ==
    {TreeOf({<<subject, TextFile(text)>>}
                \cup {<<PathOf(e), BinaryFile>> : e \in libs}
                \cup {<<PathOf(e), Symlink(<<Str(GetPrefix(b, o, "static"), bo)>>)>> :
                         e \in links}) :
        subject \in {PathOf(PcFile), PathOf(Script), <<Header, 1>>},
        text \in Texts(b, o, bo),
        libs \in SUBSET {StaticLib, DynamicEntry(StaticLib), ToolBinary},
        links \in SUBSET {Link}}

\* manifests as _build_package_for_runtime writes them: sorted, maybe empty
BuiltManifests == {Sorted(lines) : lines \in
                      {<<>>, <<StaticLib>>, <<SharedLib>>, <<ToolBinary>>,
                       <<StaticLib, SharedLib>>, <<StaticLib, ToolBinary>>,
                       <<SharedLib, ToolBinary>>, <<StaticLib, SharedLib, ToolBinary>>,
                       <<Script>>, <<Script, StaticLib>>, <<PcFile, ToolBinary>>}}

\* locations a bundle is deployed to: a prefix of the session, or elsewhere
DeployLocations(b, o) ==
    {GetPrefix(b, o, r) : r \in Range(Runtimes(b, o))} \cup {<<"opt", <<"sdk">>>>}

\* the files of the bundle are copied into the staging directory
InitStage ==
    /\ packages = [i \in {"a"} |-> Pkg(<<>>, <<>>, "None", CondNone)]
    /\ os \in OSes
    /\ bundle \in Bundles
    /\ EmptyCache
    /\ NoDeployment
    /\ buildOs \in OSes
    /\ bundledir \in StagedTrees(bundle, os, buildOs)
    /\ builtTree = bundledir
    /\ builtManifest \in BuiltManifests
    /\ pkgManifest = [exists |-> TRUE, lines |-> builtManifest]
    /\ stagePc = "copied"
    /\ deployLocation = <<>>

\* self._adjust_manifests(tempdir) of _package
AdjustManifests ==
    /\ stagePc = "copied"
    /\ pkgManifest' = AdjustedManifest(pkgManifest.lines, bundledir)
    /\ stagePc' = "manifests"
    /\ UNCHANGED <<buildState, deployment, buildOs, bundledir, builtTree, builtManifest,
                   deployLocation>>

\* self._adjust_files_containing_hardcoded_paths(tempdir) of _package
AdjustFilesContainingHardcodedPaths ==
    /\ stagePc = "manifests"
    /\ bundledir' = AdjustedTree(bundledir, bundle, os, buildOs)
    /\ stagePc' = "paths"
    /\ UNCHANGED <<buildState, deployment, buildOs, builtTree, pkgManifest,
                   builtManifest, deployLocation>>

\* the archive of the tree is extracted by sync(bundle, machine, loc) and its
\* templates are filled in
SyncRewrite(loc) ==
    /\ stagePc = "paths"
    /\ bundledir' = DeployedTree(bundledir, loc)
    /\ deployLocation' = loc
    /\ stagePc' = "deployed"
    /\ UNCHANGED <<buildState, deployment, buildOs, builtTree, pkgManifest,
                   builtManifest>>

NextStage ==
    \/ AdjustManifests
    \/ AdjustFilesContainingHardcodedPaths
    \/ \E loc \in DeployLocations(bundle, os) : SyncRewrite(loc)

SpecStage == InitStage /\ [][NextStage]_vars

\* ------------------------------------------------------------ sync and wait
\* probes one wait makes
MaxProbes == 3
\* bundle versions (1..MaxVersion)
MaxVersion == 2
Versions == 1..MaxVersion

\* the directory at location: none, or a complete copy with the version its
\* VERSION.txt gives (0: the file cannot be read)
Absent == [kind |-> "absent", version |-> 0]
Copy(v) == [kind |-> "copy", version |-> v]

\* answers of the bundle URL: 200, 404, another HTTP status, no connection
RemoteAnswers == {"present", "missing", "error", "unreachable"}

\* a cache directory some earlier syncs have used, and a remote
InitDeploy ==
    /\ packages = [i \in {"a"} |-> Pkg(<<>>, <<>>, "None", CondNone)]
    /\ os = "linux"
    /\ InitCache
    /\ NoStaging
    /\ remote \in RemoteAnswers
    /\ wanted \in Versions
    /\ location \in {Absent} \cup {Copy(v) : v \in 0..MaxVersion}
    /\ previous = location
    /\ stagingDir \in {"absent", "partial"}
    /\ localBundle \in BOOLEAN
    /\ tempArchive = FALSE
    /\ syncPc = "idle"
    /\ syncState = "PRISTINE"
    /\ waitPc = "idle"
    /\ lastProbe = "none"
    /\ nprobes = 0
    /\ NoRoll
    /\ bootstrap = "stale"

waiting == <<waitPc, lastProbe, nprobes>>
syncing == <<location, previous, stagingDir, localBundle, tempArchive, syncPc, syncState>>

\* sync is called for the configured version
SyncBegin ==
    /\ syncPc \in {"idle", "done", "failed"}
    /\ syncPc' = "check"
    /\ syncState' = "PRISTINE"
    /\ previous' = location
    /\ UNCHANGED <<buildState, staging, rolling, remote, wanted, waiting, location, stagingDir,
                   localBundle, tempArchive>>

\* sync lines 167-175: a copy of the wanted version is kept, any other copy
\* is removed
SyncCheck ==
    /\ syncPc = "check"
    /\ \/ /\ location.kind = "copy" /\ location.version = wanted
          /\ syncPc' = "done"
          /\ UNCHANGED <<location, syncState>>
       \/ /\ location.kind = "copy" /\ location.version # wanted
          /\ location' = Absent
          /\ syncState' = "MODIFIED"
          /\ syncPc' = "fetch"
       \/ /\ location.kind = "absent"
          /\ syncPc' = "fetch"
          /\ UNCHANGED <<location, syncState>>
    /\ UNCHANGED <<buildState, staging, rolling, remote, wanted, waiting, previous, stagingDir,
                   localBundle, tempArchive>>

\* sync lines 177-199: the local archive, or the download
SyncFetch ==
    /\ syncPc = "fetch"
    /\ \/ /\ localBundle
          /\ syncPc' = "extract"
          /\ UNCHANGED tempArchive
       \/ /\ ~localBundle /\ remote = "present"
          /\ tempArchive' = TRUE
          /\ syncPc' = "extract"
       \/ \* BundleNotFoundError
          /\ ~localBundle /\ remote = "missing"
          /\ syncPc' = "failed"
          /\ UNCHANGED tempArchive
       \/ \* another HTTPError, or URLError
          /\ ~localBundle /\ remote \in {"error", "unreachable"}
          /\ syncPc' = "failed"
          /\ UNCHANGED tempArchive
    /\ UNCHANGED <<buildState, staging, rolling, remote, wanted, waiting, location, previous,
                   stagingDir, localBundle, syncState>>

\* sync lines 201-208 and 219-221: the staging directory is made anew and the
\* archive extracted into it; a broken archive leaves it partial
SyncExtract ==
    /\ syncPc = "extract"
    /\ \/ /\ stagingDir' = "extracted"
          /\ syncPc' = "rewrite"
          /\ UNCHANGED tempArchive
       \/ /\ stagingDir' = "partial"
          /\ tempArchive' = FALSE
          /\ syncPc' = "failed"
    /\ UNCHANGED <<buildState, staging, rolling, remote, wanted, waiting, location, previous,
                   localBundle, syncState>>

\* sync lines 210-216: the templates of the staging directory are filled in
SyncFillTemplates ==
    /\ syncPc = "rewrite"
    /\ stagingDir' = "deployable"
    /\ syncPc' = "rename"
    /\ UNCHANGED <<buildState, staging, rolling, remote, wanted, waiting, location, previous,
                   localBundle, tempArchive, syncState>>

\* sync lines 218-223: the staging directory becomes the location; a local
\* archive may hold any version
SyncRename ==
    /\ syncPc = "rename"
    /\ \E v \in Versions :
           /\ ~localBundle => v = wanted
           /\ location' = Copy(v)
    /\ stagingDir' = "absent"
    /\ tempArchive' = FALSE
    /\ syncPc' = "done"
    /\ UNCHANGED <<buildState, staging, rolling, remote, wanted, waiting, previous, localBundle,
                   syncState>>

\* wait() is called
WaitBegin ==
    /\ waitPc = "idle"
    /\ waitPc' = "probe"
    /\ UNCHANGED <<buildState, staging, rolling, remote, wanted, syncing, lastProbe, nprobes>>

\* wait lines 755-761: one HEAD request; an HTTPError other than 404 makes
\* wait return, any other exception leaves it
WaitProbe ==
    /\ waitPc = "probe"
    /\ nprobes' = nprobes + 1
    /\ \/ /\ remote = "present"
          /\ lastProbe' = "found"
          /\ waitPc' = "returned"
       \/ /\ remote = "missing"
          /\ lastProbe' = "notfound"
          /\ waitPc' = "sleep"
       \/ /\ remote = "error"
          /\ lastProbe' = "httperror"
          /\ waitPc' = "returned"
       \/ /\ remote = "unreachable"
          /\ lastProbe' = "urlerror"
          /\ waitPc' = "raised"
    /\ UNCHANGED <<buildState, staging, rolling, remote, wanted, syncing>>

\* wait lines 762-763: the message and five minutes of sleep
WaitSleep ==
    /\ waitPc = "sleep"
    /\ nprobes < MaxProbes
    /\ waitPc' = "probe"
    /\ UNCHANGED <<buildState, staging, rolling, remote, wanted, syncing, lastProbe, nprobes>>

\* the exit status of the wait command (main lines 132-138): a return ends
\* with 0, an uncaught exception with 1
WaitExitStatus == IF waitPc = "raised" THEN 1 ELSE 0

\* the bundle is uploaded or removed, or the server's condition changes
RemoteChanges(answer) ==
    /\ answer # remote
    /\ remote' = answer
    /\ UNCHANGED <<buildState, staging, rolling, wanted, syncing, waiting>>

NextDeploy ==
    \/ SyncBegin
    \/ SyncCheck
    \/ SyncFetch
    \/ SyncExtract
    \/ SyncFillTemplates
    \/ SyncRename
    \/ WaitBegin
    \/ WaitProbe
    \/ WaitSleep
    \/ \E answer \in RemoteAnswers : RemoteChanges(answer)

SpecDeploy == InitDeploy /\ [][NextDeploy]_vars

\* ------------------------------------------------------------ the roll command
\* exit statuses of aws s3 ls: found, not found, anything else
ListingStatuses == {0, 1, 2}
PostChoices == {"none", "present", "missing"}

\* configure_bootstrap_version(version): bootstrap_version becomes deps_version
ConfiguredBootstrap == "current"

\* what the roll has done once it has configured the bootstrap version
DidConfigure == IF bootstrap # ConfiguredBootstrap THEN rollDid \cup {"config"} ELSE rollDid

\* a cache directory, and a configuration of a toolchain package a and the
\* SDK packages b and c, c built on b
InitRoll ==
    /\ packages = [i \in Ids |->
                     CASE i = "a" -> Pkg(<<>>, <<>>, "toolchain", CondNone)
                       [] i = "b" -> Pkg(<<>>, <<>>, "None", CondNone)
                       [] OTHER -> Pkg(<<Dep("b", CondNone)>>, <<>>, "None", CondNone)]
    /\ os = "linux"
    /\ InitCache
    /\ NoStaging
    /\ NoSyncOrWait
    /\ NoRoll
    /\ bootstrap \in {"stale", "current"}

\* roll lines 226-233: the arguments are taken, and an activating SDK roll
\* configures the bootstrap version
RollBegin(b, activate, post) ==
    /\ rollPc \in {"idle", "returned", "failed"}
    /\ pc \in Stopped
    /\ nsessions < MaxSessions
    /\ nsessions > 0 /\ b # bundle => nswitches < MaxBundleSwitches
    /\ rollBundle' = b
    /\ rollActivate' = activate
    /\ rollPost' = post
    /\ rollBase' = nsessions
    /\ rollProbe' = "none"
    /\ rollListing' = -1
    /\ IF activate /\ b = "SDK"
       THEN /\ bootstrap' = ConfiguredBootstrap
            /\ rollDid' = IF bootstrap # ConfiguredBootstrap THEN {"config"} ELSE {}
       ELSE /\ rollDid' = {}
            /\ UNCHANGED bootstrap
    /\ rollPc' = "probe"
    /\ UNCHANGED <<buildState, staging, syncAndWait>>

\* a probe that takes every error for not found
AfterProbeLenient(answer) == IF answer = "present" THEN "returned" ELSE "list"

\* roll lines 238-243: where the answer of the HEAD request leads
AfterProbe(answer) ==
    CASE answer = "present" -> "returned"
      [] answer = "missing" -> "list"
      [] OTHER -> "failed"

\* roll lines 235-243: the HEAD request on the public URL
RollProbe ==
    /\ rollPc = "probe"
    /\ \E answer \in RemoteAnswers :
           /\ rollProbe' = answer
           /\ rollPc' = AfterProbe(answer)
    /\ UNCHANGED <<buildState, staging, syncAndWait, rollBundle, rollActivate, rollPost,
                   rollBase, rollListing, rollDid, bootstrap>>

\* roll lines 245-252: aws s3 ls
RollList ==
    /\ rollPc = "list"
    /\ \E returncode \in ListingStatuses :
           /\ rollListing' = returncode
           /\ rollPc' = CASE returncode = 0 -> "returned"
                          [] returncode = 1 -> "build"
                          [] OTHER -> "failed"
    /\ UNCHANGED <<buildState, staging, syncAndWait, rollBundle, rollActivate, rollPost,
                   rollBase, rollProbe, rollDid, bootstrap>>

\* roll line 254: build(bundle, machine) begins
RollBuild ==
    /\ rollPc = "build"
    /\ nsessions = rollBase
    /\ StartBuild(rollBundle, NoOnly, {})

\* roll line 254: build returned the artifact, or ended the process
RollBuilt ==
    /\ rollPc = "build"
    /\ nsessions > rollBase
    /\ \/ /\ pc = "done"
          /\ rollDid' = rollDid \cup {"build"}
          /\ rollPc' = IF rollPost = "none" THEN "upload" ELSE "post"
       \/ /\ pc = "failed"
          /\ rollPc' = "failed"
          /\ UNCHANGED rollDid
    /\ UNCHANGED <<buildState, staging, syncAndWait, rollBundle, rollActivate, rollPost,
                   rollBase, rollProbe, rollListing, bootstrap>>

\* roll lines 256-269: the post-processing script (check=True)
RollPost ==
    /\ rollPc = "post"
    /\ \/ /\ rollPost = "missing"
          /\ rollPc' = "failed"
          /\ UNCHANGED rollDid
       \/ /\ rollPost = "present"
          /\ rollDid' = rollDid \cup {"post"}
          /\ rollPc' = "upload"
       \/ /\ rollPost = "present"
          /\ rollPc' = "failed"
          /\ UNCHANGED rollDid
    /\ UNCHANGED <<buildState, staging, syncAndWait, rollBundle, rollActivate, rollPost,
                   rollBase, rollProbe, rollListing, bootstrap>>

\* roll line 271: aws s3 cp (check=True)
RollUpload ==
    /\ rollPc = "upload"
    /\ \/ /\ rollDid' = rollDid \cup {"upload"}
          /\ rollPc' = "purge"
       \/ /\ rollPc' = "failed"
          /\ UNCHANGED rollDid
    /\ UNCHANGED <<buildState, staging, syncAndWait, rollBundle, rollActivate, rollPost,
                   rollBase, rollProbe, rollListing, bootstrap>>

\* roll lines 273-277: cfcli purge (check=True), then an activating toolchain
\* roll configures the bootstrap version
RollPurge ==
    /\ rollPc = "purge"
    /\ \/ /\ rollPc' = "returned"
          /\ IF rollActivate /\ rollBundle = "TOOLCHAIN"
             THEN /\ bootstrap' = ConfiguredBootstrap
                  /\ rollDid' = DidConfigure \cup {"purge"}
             ELSE /\ rollDid' = rollDid \cup {"purge"}
                  /\ UNCHANGED bootstrap
       \/ /\ rollPc' = "failed"
          /\ UNCHANGED <<rollDid, bootstrap>>
    /\ UNCHANGED <<buildState, staging, syncAndWait, rollBundle, rollActivate, rollPost,
                   rollBase, rollProbe, rollListing>>

NextRoll ==
    \/ \E b \in Bundles, activate \in BOOLEAN, post \in PostChoices :
           RollBegin(b, activate, post)
    \/ RollProbe
    \/ RollList
    \/ RollBuild
    \/ GrabAndPrepare
    \/ EnsureToolchain
    \/ WipeBuildState
    \/ GenerateMachineFiles
    \/ BuildPackage
    \/ MesonSetup
    \/ MesonInstall
    \/ MesonIntrospect
    \/ Package
    \/ RollBuilt
    \/ RollPost
    \/ RollUpload
    \/ RollPurge

SpecRoll == InitRoll /\ [][NextRoll]_vars

\* ------------------------------------------------------------ the claims' terms
\* a process of the build command exists or has ended by itself
SessionLive == pc \in Running \cup {"done", "failed"}

\* packages whose package-level predicate is true in the session
Buildable == {i \in DOMAIN packages : EvaluateCondition(packages[i].when, bundle, os)}

\* effective dependency edges: the dependencies whose predicate is true
EffectiveDeps(i) ==
    IF i \in Buildable
    THEN {d.identifier : d \in {x \in Range(packages[i].dependencies) :
                                      EvaluateCondition(x.when, bundle, os)}}
    ELSE {}

AllIds == Ids \cup {UnknownId}

\* identifiers reachable from S over effective dependency edges: what every
\* superset of S closed under the edges holds
ReachableFrom(S) ==
    {t \in AllIds :
        \A T \in SUBSET AllIds :
            (S \subseteq T /\ \A i \in T : EffectiveDeps(i) \subseteq T) => t \in T}

\* the chosen top-level packages
TopLevel ==
    IF only.given THEN only.ids
    ELSE IF bundle = "TOOLCHAIN"
    THEN {i \in Buildable : packages[i].scope = "toolchain"}
    ELSE {i \in Buildable : packages[i].scope = "None"}

\* a cycle of effective dependency edges inside S: some non-empty part of S
\* in which every package has a dependency in that part
CycleAmong(S) ==
    \E C \in SUBSET S :
        C # {} /\ \A i \in C : EffectiveDeps(i) \cap C # {}

Position(i) == CHOOSE k \in DOMAIN order : order[k] = i

SessionRuntimes == Range(Runtimes(bundle, os))
SelectedPairs == selected \X SessionRuntimes
BundleManifests == {path \in DOMAIN manifest : path[1] = bundle}

\* ------------------------------------------------------------ claims

\* C1: the build tool is started for a package only when every effective
\* dependency of it has a manifest for every runtime variant of the session
C1_DependenciesBuiltFirst ==
    pc \in {"setup", "install", "introspect"} =>
        \A d \in EffectiveDeps(CurrentPackage) : \A r \in SessionRuntimes :
            ManifestExists(GetManifestPath(bundle, os, r, d))

C1_Witness ==
    /\ pc = "setup"
    /\ EffectiveDeps(CurrentPackage) # {}
    /\ Len(Runtimes(bundle, os)) = 2

\* C2: once a package or the toolchain reported MODIFIED, no manifest of the
\* bundle exists when the first package build starts, no pair is skipped, and
\* a session that gets through its builds ran the tool for every selected pair
C2_CascadingInvalidation ==
    modifiedBy # {} =>
        /\ pc = "build" /\ idx = 1 /\ rt = 1 => BundleManifests = {}
        /\ skipped = {}
        /\ pc \in {"package", "done"} => started = SelectedPairs

C2_Witness ==
    /\ pc = "done"
    /\ modifiedBy # {}
    /\ \E p \in selected : p \notin modifiedBy /\ <<p, "static">> \in started

\* C3 (as claimed): a manifest exists only if setup, install and the
\* introspection of that pair all completed successfully
C3_ManifestOnlyAfterSuccess ==
    \A path \in DOMAIN manifest : manifest[path].exit = 0

\* C4 (as claimed): after a successful selection the selected set is the set
\* of packages reachable from the top-level packages minus the excluded
\* identifiers
C4_ClosureCorrect ==
    nsessions > 0 /\ pc = "prepare" =>
        selected = (ReachableFrom(TopLevel) \cap Buildable) \ excluded

\* C5: in the build order every selected package appears exactly once and
\* after all of its effective dependencies
C5_TopologicalOrder ==
    nsessions > 0 /\ pc = "prepare" =>
        /\ Range(order) = selected
        /\ Len(order) = Cardinality(selected)
        /\ \A i \in selected : \A d \in EffectiveDeps(i) \cap selected :
               Position(d) < Position(i)

C5_Witness ==
    /\ pc = "prepare"
    /\ Cardinality(selected) = 3
    /\ \E i \in selected : Cardinality(EffectiveDeps(i)) = 2

\* C6: a cycle of effective dependency edges among the selected packages
\* makes selection fail with no synchronisation, wipe or tool run done
C6_CycleFailsFirst ==
    SessionLive /\ status # "SyntaxError" /\ CycleAmong(selected) =>
        pc = "failed" /\ effects = {}

C6_Witness ==
    /\ pc = "failed"
    /\ status = "CycleError"
    /\ CycleAmong(selected)

\* C7: the build step of a pair whose manifest is present starts no build
\* tool and leaves manifests, build directories and install prefixes as they are
C7_SkipIsIdempotent ==
    [][(pc = "build" /\ idx <= Len(order) /\ ManifestExists(CurrentPath)) =>
           /\ manifest' = manifest
           /\ builddir' = builddir
           /\ installed' = installed
           /\ started' \subseteq started
           /\ pc' \in {"build", "killed"}]_vars

C7_Witness ==
    /\ skipped # {}
    /\ pc = "done"

\* C8 (as claimed): a non-zero exit of a build-tool invocation ends the
\* session at once, with non-zero status and neither staging nor archive
C8_FailFast ==
    toolFailed =>
        /\ pc = "failed"
        /\ ExitStatus # 0
        /\ effects \cap {"stage", "archive"} = {}

\* some predicate of the loaded graph is malformed
AnyMalformed ==
    \E i \in DOMAIN packages :
        \/ Malformed(packages[i].when)
        \/ \E x \in Range(packages[i].options) \cup Range(packages[i].dependencies) :
               Malformed(x.when)

\* a malformed predicate the session evaluates: a package predicate, or an
\* option or dependency predicate of a package whose own predicate is true
MalformedEvaluated ==
    \E i \in DOMAIN packages :
        \/ Malformed(packages[i].when)
        \/ /\ i \in Buildable
           /\ \E x \in Range(packages[i].options) \cup Range(packages[i].dependencies) :
                  Malformed(x.when)

\* the packages the session needs: the closure of the top-level set, or, for
\* the default SDK set, the unscoped packages that are not excluded
Needed ==
    IF only.given \/ bundle = "TOOLCHAIN"
    THEN ReachableFrom(TopLevel)
    ELSE TopLevel \ excluded

\* C9 (as claimed): every configuration error of the loaded graph makes the
\* session fail before any filesystem mutation
C9_EveryConfigErrorFatal ==
    SessionLive /\ nsessions > 0 =>
        ((\/ AnyMalformed
          \/ /\ ~AnyMalformed
             /\ \/ \E i \in DOMAIN packages : ~(EffectiveDeps(i) \subseteq DOMAIN packages)
                \/ CycleAmong(DOMAIN packages))
         => pc = "failed" /\ effects = {})

\* C9 (amended): every configuration error the session meets makes it fail
\* before any filesystem mutation: a malformed predicate it evaluates, an
\* effective dependency of a needed package on an unknown identifier, a cycle
\* among the needed packages that are not excluded
C9_MetConfigErrorFatal ==
    SessionLive /\ nsessions > 0 =>
        ((\/ MalformedEvaluated
          \/ /\ ~MalformedEvaluated
             /\ \/ \E i \in Needed : ~(EffectiveDeps(i) \subseteq DOMAIN packages)
                \/ CycleAmong(Needed \ excluded))
         => pc = "failed" /\ effects = {})

C9_Witness ==
    /\ pc = "failed"
    /\ MalformedEvaluated
    /\ status = "SyntaxError"

\* C10 (as claimed): the session after a terminated one, run to its end,
\* leaves every selected pair with a manifest built from the pinned revision
C10_RecoveryByRedetection ==
    afterKill /\ pc = "done" =>
        \A p \in selected : \A r \in SessionRuntimes :
            /\ ManifestExists(GetManifestPath(bundle, os, r, p))
            /\ manifest[GetManifestPath(bundle, os, r, p)].rev = pinned[p]

\* ------------------------------------------------------------ claims C11..C20

\* C12 (as claimed): distinct (package, runtime) pairs of a session have
\* distinct source directories, build-scratch directories and install prefixes
C12_ExclusiveDirectories ==
    \A q1, q2 \in started :
        q1 # q2 =>
            /\ GetSourcedir(q1[1]) # GetSourcedir(q2[1])
            /\ GetBuilddir(bundle, os, q1[2], q1[1]) # GetBuilddir(bundle, os, q2[2], q2[1])
            /\ GetPrefix(bundle, os, q1[2]) # GetPrefix(bundle, os, q2[2])

\* C12 (amended): distinct pairs of a session have distinct build-scratch
\* directories, which exist once the tool was started for them; the source
\* directory is shared by the pairs of one package and by no others, the
\* install prefix by the pairs of one runtime variant and by no others
C12_ExclusiveBuilddir ==
    \A q1, q2 \in started :
        /\ GetBuilddir(bundle, os, q1[2], q1[1]) \in builddir
        /\ q1 # q2 =>
            /\ GetBuilddir(bundle, os, q1[2], q1[1]) # GetBuilddir(bundle, os, q2[2], q2[1])
            /\ GetSourcedir(q1[1]) = GetSourcedir(q2[1]) <=> q1[1] = q2[1]
            /\ GetPrefix(bundle, os, q1[2]) = GetPrefix(bundle, os, q2[2]) <=> q1[2] = q2[2]

C12_Witness ==
    /\ Cardinality(started) = 4
    /\ pc = "install"

\* C13: a package cloned in this session reports no MODIFIED, and a session
\* that gets through its builds ran the tool for each of its runtime variants
C13_FreshCloneIsBuilt ==
    /\ cloned \cap modifiedBy = {}
    /\ pc \in {"package", "done"} =>
           \A p \in cloned : \A r \in SessionRuntimes : <<p, r>> \in started

C13_Witness ==
    /\ pc = "done"
    /\ cloned # {}
    /\ "wipe" \notin effects
    /\ Len(Runtimes(bundle, os)) = 2

\* the outcome of the session's selection had nothing been excluded
Unexcluded == Selection(packages, bundle, os, only, {})

\* C16 (as claimed): when selection succeeds with nothing excluded, it
\* succeeds for every excluded set, and the build order holds exactly the
\* packages selected before minus the excluded identifiers
C16_ExclusionKeepsSelection ==
    nsessions > 0 /\ Unexcluded.status = "ok" =>
        /\ pc = "prepare"
        /\ selected = Unexcluded.selected \ excluded
        /\ Range(order) = selected

\* C17: a synchronisation that succeeds leaves the working copy at the pinned
\* version; it reports MODIFIED (the wipe follows) exactly when a copy existed
\* at another revision, changes nothing when the copy matched, and clones
\* when there was none
C17_SourceStateContract ==
    [][(pc = "prepare" /\ idx <= Len(order) /\ pc' \in {"prepare", "wipe"}) =>
           LET p == order[idx] IN
           /\ head'[p] = pinned[p]
           /\ pc' = "wipe" <=> (head[p] # 0 /\ head[p] # pinned[p])
           /\ p \in modifiedBy' <=> (head[p] # 0 /\ head[p] # pinned[p])
           /\ head[p] = pinned[p] => head' = head /\ effects' = effects
           /\ p \in cloned' <=> head[p] = 0]_vars

C17_Witness ==
    /\ pc = "build"
    /\ modifiedBy # {}
    /\ cloned # {}
    /\ selected \ (modifiedBy \cup cloned) # {}

\* C18: nothing is synchronised before selection succeeded, no tool runs
\* before every selected package is synchronised and the wipes are done,
\* staging starts only with a manifest for every selected pair, and the
\* archive exists only at the end of such a session
C18_PhasesOrdered ==
    /\ effects # {} => status = "ok"
    /\ pc \in {"prepare", "wipe", "machine"} =>
           started = {} /\ skipped = {} /\ effects \cap {"tool", "scratch", "stage"} = {}
    /\ pc \in {"build", "setup", "install", "introspect", "package", "done"} =>
           \A p \in selected : head[p] = pinned[p]
    /\ effects \cap {"tool", "scratch"} # {} => "env" \in effects
    /\ pc \in {"package", "done"} =>
           \A q \in SelectedPairs : ManifestExists(GetManifestPath(bundle, os, q[2], q[1]))
    /\ effects \cap {"stage", "archive"} # {} => pc = "done"

C18_Witness ==
    /\ pc = "done"
    /\ "wipe" \in effects
    /\ Cardinality(SelectedPairs) = 4

\* the runtime variants the claim gives a session
ClaimedVariants ==
    IF os = "windows" /\ bundle = "SDK" THEN {"static", "dynamic"} ELSE {"static"}

\* the state half of C19
ManifestPerVariant ==
    /\ pc \in {"package", "done"} =>
           /\ \A p \in selected : \A r \in ClaimedVariants :
                  ManifestExists(GetManifestPath(bundle, os, r, p))
           /\ skipped = {} => started = selected \X ClaimedVariants
    /\ \A r1, r2 \in ClaimedVariants : \A p \in Ids :
           r1 # r2 =>
               /\ GetPrefix(bundle, os, r1) # GetPrefix(bundle, os, r2)
               /\ GetManifestPath(bundle, os, r1, p) # GetManifestPath(bundle, os, r2, p)

\* C19: after the build phase every selected package has a manifest for
\* static, and for dynamic exactly on windows with the SDK bundle, under
\* distinct prefixes and manifest paths; the tool is started at most once for
\* a pair, and for every pair when no manifest was there
C19_ManifestPerVariant ==
    [][/\ ManifestPerVariant'
       /\ (started' # started /\ started' # {}) =>
              /\ pc = "setup"
              /\ CurrentPair \notin started
              /\ started' = started \cup {CurrentPair}]_vars

C19_Witness ==
    /\ pc = "done"
    /\ skipped = {}
    /\ Cardinality(started) = 4

\* the staging rewrote the file at this path of the copied tree
AffectedByStaging(q) ==
    AdjustedFile(q, builtTree[q], PrefixStrings(bundle, os, buildOs)) # <<q, builtTree[q]>>

SessionPrefixes == {GetPrefix(bundle, os, r) : r \in SessionRuntimes}

RestorableAt(q, loc) ==
    /\ Suffix(q) # ".pc"
    /\ ToolRoot \notin Range(builtTree[q].text)
    /\ Str(loc, buildOs) = AsPosix(loc)
    /\ \A prefix \in SessionPrefixes :
           Str(prefix, buildOs) \in Range(builtTree[q].text) => prefix = loc

ExpectedLines ==
    {e \in Range(builtManifest) : PathOf(e) \in DOMAIN builtTree}
        \cup {DynamicEntry(e) : e \in {x \in Range(builtManifest) :
                  IsStaticArchive(x) /\ PathOf(DynamicEntry(x)) \in DOMAIN builtTree}}

\* C20 (as claimed): after pruning, a manifest with no surviving entry is
\* gone, and a remaining one holds exactly the entries whose file was staged
\* and the relocated entries of static archives whose dynamic counterpart was
\* staged
C20_PrunedManifest ==
    stagePc \in {"manifests", "paths", "deployed"} =>
        IF ExpectedLines = {}
        THEN ~pkgManifest.exists
        ELSE /\ pkgManifest.exists
             /\ pkgManifest.lines # <<>>
             /\ Range(pkgManifest.lines) = ExpectedLines

\* C14 (as claimed): while and after a sync, a location that held a copy
\* when the sync began holds a complete copy
C14_AtomicReplace ==
    syncPc # "idle" /\ previous.kind = "copy" => location.kind = "copy"

\* C15 (as claimed): after a not-found answer the wait goes on, after the
\* artifact was found it has returned with status 0, and after any other
\* error it has stopped with a non-zero status
C15_WaitContract ==
    /\ lastProbe = "notfound" => waitPc \in {"sleep", "probe"}
    /\ lastProbe = "found" => waitPc = "returned" /\ WaitExitStatus = 0
    /\ lastProbe \in {"httperror", "urlerror"} =>
           waitPc \in {"returned", "raised"} /\ WaitExitStatus # 0

\* ------------------------------------------------------------ claims C21..C28
\* the install prefixes the session used: those of its runtimes, and the
\* prefix of the toolchain it ran
UsedPrefixes == SessionPrefixes \cup {ToolchainPrefix}

\* the ways a text spells a path
Spellings(path) == {Str(path, buildOs), AsPosix(path)}

\* the file the rewrite made of the copied file at this path
Rewritten(q) ==
    IF q \in DOMAIN bundledir THEN bundledir[q] ELSE bundledir[<<q[1], q[2] + 1>>]

\* C21 (as claimed): after path rewriting no staged text file names an
\* install prefix the session used, and where the copied file named one the
\* rewritten file has the placeholder of its kind
C21_NoPrefixLeft ==
    stagePc = "paths" =>
        /\ \A q \in DOMAIN bundledir :
               bundledir[q].kind = "text" =>
                   \A prefix \in UsedPrefixes :
                       Spellings(prefix) \cap Range(bundledir[q].text) = {}
        /\ \A q \in DOMAIN builtTree :
               builtTree[q].kind = "text" =>
                   \A k \in DOMAIN builtTree[q].text :
                       (\E prefix \in UsedPrefixes :
                            builtTree[q].text[k] \in Spellings(prefix))
                           => Rewritten(q).text[k] =
                                  (IF Suffix(q) = ".pc" THEN SdkPrefixVar ELSE ToolRoot)

\* the rewrite gave the copied file at this path the template suffix
Renamed(q) == q \notin DOMAIN bundledir /\ <<q[1], q[2] + 1>> \in DOMAIN bundledir

\* the copied file at this path is a text that names a prefix of the session
NamesPrefix(q) ==
    /\ builtTree[q].kind = "text"
    /\ \E prefix \in SessionPrefixes : Str(prefix, buildOs) \in Range(builtTree[q].text)

\* C22: after path rewriting a file has the template suffix exactly if it is
\* a text file, not a package-config file, and its content changed; a
\* package-config file that names a prefix is changed under its own name;
\* links, binary files and texts that name no prefix keep name and content;
\* and no other file appears
C22_RenamedIffRewritten ==
    stagePc = "paths" =>
        /\ \A q \in DOMAIN builtTree :
               /\ Renamed(q) <=> /\ builtTree[q].kind = "text"
                                 /\ Suffix(q) # ".pc"
                                 /\ Rewritten(q).text # builtTree[q].text
               /\ Suffix(q) = ".pc" /\ NamesPrefix(q) =>
                      /\ q \in DOMAIN bundledir
                      /\ bundledir[q].kind = "text"
                      /\ bundledir[q].text # builtTree[q].text
               /\ builtTree[q].kind \in {"symlink", "binary"} \/ ~NamesPrefix(q) =>
                      q \in DOMAIN bundledir /\ bundledir[q] = builtTree[q]
        /\ Cardinality(DOMAIN bundledir) = Cardinality(DOMAIN builtTree)

C22_Witness ==
    /\ stagePc = "paths"
    /\ Renamed(PathOf(Script))
    /\ PathOf(Link) \in DOMAIN bundledir
    /\ PathOf(StaticLib) \in DOMAIN bundledir
    /\ Len(builtTree[PathOf(Script)].text) = 2

\* C23: when the setup of the build tool is about to run for a pair, the
\* build directory of the pair does not exist
C23_ScratchCleared ==
    pc = "setup" => CurrentBuilddir \notin builddir

\* the setup is about to run for a pair that an earlier attempt had set up
\* and begun to install
C23_Witness ==
    /\ pc = "setup"
    /\ nsessions > 1
    /\ <<GetPrefix(bundle, os, CurrentRuntime), CurrentPackage>> \in installed
    /\ ~ManifestExists(CurrentPath)
    /\ CurrentBuilddir \notin builddir

\* the positions of a list whose predicate is absent or true in the session
KeptPositions(list) ==
    {k \in DOMAIN list : EvaluateCondition(list[k].when, bundle, os)}

\* res holds exactly the elements of list at the kept positions, in order
Filtered(res, list) ==
    \E f \in [DOMAIN res -> DOMAIN list] :
        /\ \A m, n \in DOMAIN res : m < n => f[m] < f[n]
        /\ {f[n] : n \in DOMAIN res} = KeptPositions(list)
        /\ \A n \in DOMAIN res : res[n] = list[f[n]]

\* the resolved copies of the session are those of the packages whose
\* predicate is true, each with its options and dependencies filtered
ResolvedAsClaimed ==
    LET all == AllPackages(packages, bundle, os)
    IN /\ DOMAIN all = Buildable
       /\ \A i \in DOMAIN all :
              /\ Filtered(all[i].options, packages[i].options)
              /\ Filtered(all[i].dependencies, packages[i].dependencies)
              /\ all[i].scope = packages[i].scope
              /\ all[i].when = packages[i].when

\* C24: a session that resolves its packages leaves the loaded packages as
\* they were, resolves exactly the packages whose predicate is true, each to
\* its options and dependencies whose predicate is absent or true, in order,
\* and selects among those packages only
C24_ResolvedCopy ==
    [][nsessions' > nsessions =>
           /\ packages' = packages
           /\ status' # "SyntaxError" => ResolvedAsClaimed' /\ selected' \subseteq Buildable'
      ]_vars

C24_Witness ==
    /\ nsessions > 0
    /\ status = "ok"
    /\ bundle = "TOOLCHAIN"
    /\ "a" \in selected
    /\ "c" \notin Buildable
    /\ Len(packages["a"].options) = 3
    /\ Len(AllPackages(packages, bundle, os)["a"].options) = 1
    /\ \E i \in selected :
           Len(AllPackages(packages, bundle, os)[i].dependencies)
               < Len(packages[i].dependencies)

\* the roll has begun a build
RollHasBuilt == nsessions > rollBase

\* C25 (as claimed): a roll builds and uploads only when the probe and the
\* listing both said not found; when either said found it returns with
\* nothing built or uploaded; any other answer fails it; upload and purge
\* follow a successful build and post-processing; and a failed roll has
\* changed no configuration
C25_RollContract ==
    rollPc # "idle" =>
        /\ RollHasBuilt \/ "upload" \in rollDid => rollProbe = "missing" /\ rollListing = 1
        /\ rollProbe = "present" \/ rollListing = 0 =>
               rollPc = "returned" /\ ~RollHasBuilt /\ rollDid \cap {"upload", "purge"} = {}
        /\ rollProbe \in {"error", "unreachable"} \/ rollListing = 2 => rollPc = "failed"
        /\ "upload" \in rollDid =>
               "build" \in rollDid /\ (rollPost # "none" => "post" \in rollDid)
        /\ "purge" \in rollDid => "upload" \in rollDid
        /\ rollPc = "failed" => "config" \notin rollDid

\* C25 (amended): the same, where the failed roll that has changed no
\* configuration is any roll but an activating SDK roll
C25_RollContractButSdkActivation ==
    rollPc # "idle" =>
        /\ RollHasBuilt \/ "upload" \in rollDid => rollProbe = "missing" /\ rollListing = 1
        /\ rollProbe = "present" \/ rollListing = 0 =>
               rollPc = "returned" /\ ~RollHasBuilt /\ rollDid \cap {"upload", "purge"} = {}
        /\ rollProbe \in {"error", "unreachable"} \/ rollListing = 2 => rollPc = "failed"
        /\ "upload" \in rollDid =>
               "build" \in rollDid /\ (rollPost # "none" => "post" \in rollDid)
        /\ "purge" \in rollDid => "upload" \in rollDid
        /\ rollPc = "failed" /\ ~(rollActivate /\ rollBundle = "SDK") =>
               "config" \notin rollDid

\* an activating toolchain roll with a post-processing script has uploaded,
\* purged and configured
C25_Witness ==
    /\ rollPc = "returned"
    /\ rollBundle = "TOOLCHAIN"
    /\ rollPost = "present"
    /\ rollDid = {"build", "post", "upload", "purge", "config"}

\* the manifest of the pair exists and records the revision pinned now
BuiltAtPinned(i, r) ==
    LET path == GetManifestPath(bundle, os, r, i)
    IN ManifestExists(path) /\ manifest[path].rev = pinned[i]

\* C26 (as claimed): a pair the build phase has skipped on its manifest was
\* built from the revision pinned now, and so were its dependencies under
\* the same prefix
C26_SkippedIsCurrent ==
    \A pair \in skipped :
        /\ BuiltAtPinned(pair[1], pair[2])
        /\ \A d \in EffectiveDeps(pair[1]) : BuiltAtPinned(d, pair[2])

BuildPhases == {"build", "setup", "install", "introspect", "package"}

\* C28: the environment of a session is made in the preparation, before the
\* build tool has run for any package; no step of the build phase or of
\* staging changes it; and every run of the build tool for a package is
\* handed that environment
C28_EnvironmentFixed ==
    [][/\ machineEnv' # machineEnv /\ machineEnv' # 0 =>
              pc = "machine" /\ machineEnv = 0 /\ usedEnvs = {} /\ started = {}
       /\ pc \in BuildPhases /\ pc' \in BuildPhases \cup {"done", "failed"} =>
              machineEnv' = machineEnv /\ machineEnv # 0
       /\ usedEnvs' # usedEnvs /\ pc \in BuildPhases /\ pc' # "killed" =>
              usedEnvs' = {machineEnv'}
      ]_vars

\* a second session has run the build tool for two pairs and staged
C28_Witness ==
    /\ pc = "done"
    /\ nsessions = 2
    /\ Cardinality(started) >= 2
    /\ machineEnv = 2
    /\ usedEnvs = {2}

====
